---- MODULE Spec2Model ----
(***************************************************************************)
(* FlowSimulation (src/assets/js/flow-simulation.js): the particle pool,   *)
(* the per-frame tick and the start/stop/reset run control, together with  *)
(* the host's requestAnimationFrame queue.                                 *)
(*                                                                         *)
(* Numbers are fixed point.  Positions, velocities, temperatures,          *)
(* buoyancy, flowSpeed, turbulence, density and maxLife are in thousandths *)
(* (1000 = 1.0); size and life are in millionths (1000000 = 1.0).          *)
(* Products are truncated by \div (towards minus infinity).                *)
(*                                                                         *)
(* Math.random is the host's pseudo-random generator: a hidden state that  *)
(* every call advances.  The state at construction is arbitrary.           *)
(* Math.sin is computed by Bhaskara's rational approximation.              *)
(*                                                                         *)
(* render() and drawFlowField() write to the drawing surface only; of      *)
(* them the model keeps whether render() throws.                           *)
(*                                                                         *)
(* MultiFlowsApp (src/unnamed/part_000): of the page script the model      *)
(* keeps the bubble animation: this.flowSimulation, the interval timers    *)
(* startFlowSimulation registers with the host, and the bubbles they       *)
(* create.  The two classes do not call each other.                        *)
(***************************************************************************)
EXTENDS Integers, Sequences, FiniteSets, TLC

VARIABLES
    options,      \* this.options
    container,    \* host element: offsetWidth / offsetHeight
    canvas,       \* this.canvas: width / height
    particles,    \* this.particles
    isRunning,    \* this.isRunning
    animationId,  \* this.animationId (0 models null)
    time,         \* this.time
    pending,      \* host: requestAnimationFrame handles not yet run or cancelled
    nextHandle,   \* host: the handle the next requestAnimationFrame returns
    rng,          \* host: hidden state of Math.random
    uncaught,     \* host: the handler that ran last ended with an exception
    flowContainer,   \* document: there is an element .flow-animation
    multiFlowsApp,   \* window.multiFlowsApp has been constructed
    flowSimulation,  \* MultiFlowsApp: this.flowSimulation (defined = FALSE: undefined)
    intervals        \* host: handles of the setInterval timers that are active

\* the variables of MultiFlowsApp
appVars == << flowContainer, multiFlowsApp, flowSimulation, intervals >>

vars == << options, container, canvas, particles, isRunning, animationId,
           time, pending, nextHandle, rng, uncaught >>

----------------------------------------------------------------------------
(* Bounds of the model *)

\* ticks executed in one behaviour
MaxTime == 2
\* largest options.particleCount passed to the constructor (the smallest is 1)
MaxParticles == 2
\* liquid-vapor-liquid round trips applied to one particle
MaxTrips == 3
\* interval timers MultiFlowsApp registers in one behaviour
MaxIntervals == 4
\* bubbles on the page at once
MaxBubbles == 3
\* number of states of the host's pseudo-random generator
RngModulus == 8
\* frames the simulation runs untouched before the controls are used (SpecAged)
Warmup == 49
\* the tick cap of SpecAged
AgedTime == Warmup + MaxTime

\* host dimensions (thousandths of a pixel): at construction, after a resize
InitDim == [offsetWidth |-> 3000, offsetHeight |-> 2000]
DimVals == { [offsetWidth |-> 2000, offsetHeight |-> 1000] }
\* options.phaseTypes passed to the constructor (the first is the default)
PhaseTypesVals == { << "gas", "liquid" >>, << "liquid", "vapor" >>,
                    << "vapor", "liquid" >> }
\* arguments of setFlowSpeed and setTurbulence, outside the ranges of the
\* sliders (0..5, 0..1)
FlowSpeedVals == { 8000 }
TurbulenceVals == { 2000 }
\* argument of setTemperature: the critical temperature of checkPhaseChange,
\* so that particles are created below it, at it and above it
TemperatureVals == { 373150 }

----------------------------------------------------------------------------
(* Math.random: a deterministic generator with hidden state *)

RngNext(s) == (5 * s + 3) % RngModulus

RECURSIVE RngAt(_, _)
\* the generator's state after k calls
RngAt(s, k) == IF k = 0 THEN s ELSE RngAt(RngNext(s), k - 1)

\* the value in [0, 1) a call returns in state s, in thousandths
RandomOf(s) == (s * 1000) \div RngModulus

\* the value of the k-th call (k = 0 is the next call) from state s
Random(s, k) == RandomOf(RngAt(s, k))

----------------------------------------------------------------------------
(* sin and cos of an angle in hundredths of a radian, in thousandths *)

SinHalf(x) == (16000 * (x * (314 - x))) \div (492980 - 4 * (x * (314 - x)))

Sin(a) == LET r == a % 628
          IN  IF r < 314 THEN SinHalf(r) ELSE 0 - SinHalf(r - 314)

Cos(a) == Sin(a + 157)

----------------------------------------------------------------------------
(* Particles *)

criticalTemp == 373150

\* a styling that first takes back the multiplier of the phase the particle
\* was styled for (kept in its color), so that the size is always the size at
\* creation times the multiplier of the current phase
setPhasePropertiesFromBase(p) ==
    LET base == CASE p.color.base = "gas"    -> (p.size * 10) \div 8
                  [] p.color.base = "liquid" -> (p.size * 10) \div 12
                  [] p.color.base = "vapor"  -> (p.size * 10) \div 6
                  [] OTHER -> p.size
    IN  CASE p.phase = "gas" ->
               [p EXCEPT !.color = [base |-> "gas", alpha |-> (p.density * 3) \div 10],
                         !.size = (base * 8) \div 10,
                         !.buoyancy = -20]
          [] p.phase = "liquid" ->
               [p EXCEPT !.color = [base |-> "liquid", alpha |-> (p.density * 7) \div 10],
                         !.size = (base * 12) \div 10,
                         !.buoyancy = 10]
          [] p.phase = "vapor" ->
               [p EXCEPT !.color = [base |-> "vapor", alpha |-> (p.density * 2) \div 10],
                         !.size = (base * 6) \div 10,
                         !.buoyancy = -50]
          [] OTHER -> p

setPhaseProperties(p) ==
    CASE p.phase = "gas" ->
           [p EXCEPT !.color = [base |-> "gas", alpha |-> (p.density * 3) \div 10],
                     !.size = (p.size * 8) \div 10,
                     !.buoyancy = -20]
      [] p.phase = "liquid" ->
           [p EXCEPT !.color = [base |-> "liquid", alpha |-> (p.density * 7) \div 10],
                     !.size = (p.size * 12) \div 10,
                     !.buoyancy = 10]
      [] p.phase = "vapor" ->
           [p EXCEPT !.color = [base |-> "vapor", alpha |-> (p.density * 2) \div 10],
                     !.size = (p.size * 6) \div 10,
                     !.buoyancy = -50]
      [] OTHER -> p

\* the element of a one-element set.  A statement that uses the value v of an
\* earlier statement e is written { ... v ... : v \in { e } }, so that e is
\* evaluated once.
Only(S) == CHOOSE v \in S : TRUE

\* the particle createParticles builds for index i, drawing from state s
NewParticle(i, s, opts, cv) ==
    setPhaseProperties(
        [ id          |-> i,
          x           |-> (Random(s, 0) * cv.width) \div 1000,
          y           |-> (Random(s, 1) * cv.height) \div 1000,
          vx          |-> ((Random(s, 2) - 500) * opts.flowSpeed) \div 1000,
          vy          |-> ((Random(s, 3) - 500) * opts.flowSpeed) \div 1000,
          size        |-> Random(s, 4) * 5000 + 2000000,
          phase       |-> opts.phaseTypes[((Random(s, 5) * Len(opts.phaseTypes)) \div 1000) + 1],
          density     |-> Random(s, 6) \div 2 + 500,
          temperature |-> opts.temperature + (Random(s, 7) - 500) * 20,
          life        |-> 1000000,
          maxLife     |-> Random(s, 8) * 100 + 50000,
          color       |-> [base |-> "none", alpha |-> 0],
          buoyancy    |-> 0 ])

RECURSIVE CreateFrom(_, _, _, _, _)
\* the loop of createParticles from index i on: the pool and the generator after it
CreateFrom(i, s, acc, opts, cv) ==
    IF i >= opts.particleCount
    THEN [ps |-> acc, rng |-> s]
    ELSE Only({ CreateFrom(i + 1, RngAt(s, 9), acc2, opts, cv) :
                   acc2 \in { Append(acc, NewParticle(i, s, opts, cv)) } })

createParticles(s, opts, cv) == CreateFrom(0, s, << >>, opts, cv)

\* applyFlowForces: two draws
applyFlowForces(p, s, opts, t) ==
    LET turbulenceX == ((Random(s, 0) - 500) * opts.turbulence) \div 1000
        turbulenceY == ((Random(s, 1) - 500) * opts.turbulence) \div 1000
        vyB   == p.vy + p.buoyancy
        flowX == Sin(t + p.y \div 1000) \div 10
        flowY == Cos(t + p.x \div 1000) \div 10
    IN  [p EXCEPT !.vx = ((p.vx + turbulenceX + flowX) * 98) \div 100,
                  !.vy = ((vyB + turbulenceY + flowY) * 98) \div 100]

\* a phase change decided on the temperature after the drift
checkPhaseChangeAfterDrift(p, s) ==
    LET d == [p EXCEPT !.temperature = p.temperature + (Random(s, 0) - 500) \div 2]
    IN  IF d.phase = "liquid" /\ d.temperature > criticalTemp
        THEN setPhaseProperties([d EXCEPT !.phase = "vapor"])
        ELSE IF d.phase = "vapor" /\ d.temperature < criticalTemp
        THEN setPhaseProperties([d EXCEPT !.phase = "liquid"])
        ELSE d

\* a phase change that turns every particle above the critical temperature
\* into vapor, whatever its phase
checkPhaseChangeAnyPhase(p, s) ==
    LET q == IF p.phase # "vapor" /\ p.temperature > criticalTemp
             THEN setPhaseProperties([p EXCEPT !.phase = "vapor"])
             ELSE IF p.phase = "vapor" /\ p.temperature < criticalTemp
             THEN setPhaseProperties([p EXCEPT !.phase = "liquid"])
             ELSE p
    IN  [q EXCEPT !.temperature = q.temperature + (Random(s, 0) - 500) \div 2]

\* checkPhaseChange: one draw
checkPhaseChange(p, s) ==
    LET q == IF p.phase = "liquid" /\ p.temperature > criticalTemp
             THEN setPhaseProperties([p EXCEPT !.phase = "vapor"])
             ELSE IF p.phase = "vapor" /\ p.temperature < criticalTemp
             THEN setPhaseProperties([p EXCEPT !.phase = "liquid"])
             ELSE p
    IN  [q EXCEPT !.temperature = q.temperature + (Random(s, 0) - 500) \div 2]

applyBoundaries(p, cv) ==
    LET nx == IF p.x < 0 THEN cv.width
              ELSE IF p.x > cv.width THEN 0 ELSE p.x
        ny == IF p.y < 0 THEN cv.height
              ELSE IF p.y > cv.height THEN 0 ELSE p.y
    IN  [p EXCEPT !.x = nx, !.y = ny]

\* a reset that also clears what setPhaseProperties derived
resetParticleClearingDerived(p, s, opts, cv) ==
    [p EXCEPT !.x = (Random(s, 0) * cv.width) \div 1000,
              !.y = (Random(s, 1) * cv.height) \div 1000,
              !.life = 1000000,
              !.temperature = opts.temperature + (Random(s, 2) - 500) * 20,
              !.buoyancy = 0]

\* resetParticle: three draws
resetParticle(p, s, opts, cv) ==
    [p EXCEPT !.x = (Random(s, 0) * cv.width) \div 1000,
              !.y = (Random(s, 1) * cv.height) \div 1000,
              !.life = 1000000,
              !.temperature = opts.temperature + (Random(s, 2) - 500) * 20]

\* 1 / maxLife, in millionths
LifeStep(p) == 1000000000 \div p.maxLife

\* a forEach body that resets only when life has gone below zero
UpdateOneResetBelowZero(p, s, opts, cv, t) ==
    Only({ IF p5.life < 0
           THEN [p |-> resetParticle(p5, RngAt(s, 3), opts, cv), rng |-> RngAt(s, 6)]
           ELSE [p |-> p5, rng |-> RngAt(s, 3)] :
        p5 \in { [p4 EXCEPT !.life = p4.life - LifeStep(p4)] :
        p4 \in { applyBoundaries(p3, cv) :
        p3 \in { [p2 EXCEPT !.x = p2.x + p2.vx, !.y = p2.y + p2.vy] :
        p2 \in { checkPhaseChange(p1, RngAt(s, 2)) :
        p1 \in { applyFlowForces(p, s, opts, t) } } } } } })

\* the body of the forEach of updateParticles for one particle: the particle
\* it leaves and the generator after its draws
UpdateOne(p, s, opts, cv, t) ==
    Only({ IF p5.life <= 0
           THEN [p |-> resetParticle(p5, RngAt(s, 3), opts, cv), rng |-> RngAt(s, 6)]
           ELSE [p |-> p5, rng |-> RngAt(s, 3)] :
        p5 \in { [p4 EXCEPT !.life = p4.life - LifeStep(p4)] :
        p4 \in { applyBoundaries(p3, cv) :
        p3 \in { [p2 EXCEPT !.x = p2.x + p2.vx, !.y = p2.y + p2.vy] :
        p2 \in { checkPhaseChange(p1, RngAt(s, 2)) :
        p1 \in { applyFlowForces(p, s, opts, t) } } } } } })

RECURSIVE UpdateFromSplicing(_, _, _, _, _, _)
\* a forEach that removes the particle whose life ran out instead of keeping
\* the reset particle in its place
UpdateFromSplicing(i, ps, s, opts, cv, t) ==
    IF i > Len(ps)
    THEN [ps |-> ps, rng |-> s]
    ELSE Only({ IF r.p.life = 1000000
                THEN UpdateFromSplicing(i, SubSeq(ps, 1, i - 1) \o SubSeq(ps, i + 1, Len(ps)),
                                        r.rng, opts, cv, t)
                ELSE UpdateFromSplicing(i + 1, [ps EXCEPT ![i] = r.p], r.rng, opts, cv, t) :
             r \in { UpdateOne(ps[i], s, opts, cv, t) } })

RECURSIVE UpdateFrom(_, _, _, _, _, _)
\* the forEach of updateParticles from index i on
UpdateFrom(i, ps, s, opts, cv, t) ==
    IF i > Len(ps)
    THEN [ps |-> ps, rng |-> s]
    ELSE Only({ UpdateFrom(i + 1, ps2, r.rng, opts, cv, t) :
             << r, ps2 >> \in { << r1, [ps EXCEPT ![i] = r1.p] >> :
                                  r1 \in { UpdateOne(ps[i], s, opts, cv, t) } } })

updateParticles(ps, s, opts, cv, t) == UpdateFrom(1, ps, s, opts, cv, t)

----------------------------------------------------------------------------
(* Queries *)

getParticleCount == Len(particles)

Phases == { "gas", "liquid", "vapor" }

\* distribution[phase] = 1
CountedOnce(distribution, phase) ==
    [ph \in DOMAIN distribution \cup { phase } |->
        IF ph = phase THEN 1 ELSE distribution[ph]]

\* distribution[phase] = (distribution[phase] || 0) + 1
Counted(distribution, phase) ==
    [ph \in DOMAIN distribution \cup { phase } |->
        IF ph = phase
        THEN (IF phase \in DOMAIN distribution THEN distribution[phase] ELSE 0) + 1
        ELSE distribution[ph]]

RECURSIVE DistributionFrom(_, _, _)
\* the forEach of getPhaseDistribution from index i on
DistributionFrom(i, ps, distribution) ==
    IF i > Len(ps)
    THEN distribution
    ELSE DistributionFrom(i + 1, ps, Counted(distribution, ps[i].phase))

\* the object returned: a function whose domain is the phases that occur
getPhaseDistribution == DistributionFrom(1, particles, << >>)

----------------------------------------------------------------------------
(* Construction *)

Init ==
    \E n \in { 1, MaxParticles }, pt \in PhaseTypesVals, s \in 0..(RngModulus - 1) :
        LET d    == InitDim
            opts == [ particleCount |-> n, flowSpeed |-> 1000, turbulence |-> 100,
                      phaseTypes |-> pt, temperature |-> 293150, pressure |-> 101325000 ]
            cv   == [ width |-> d.offsetWidth, height |-> d.offsetHeight ]
            made == createParticles(s, opts, cv)
        IN  /\ options = opts
            /\ container = d
            /\ canvas = cv
            /\ particles = made.ps
            /\ rng = made.rng
            /\ isRunning = FALSE
            /\ animationId = 0
            /\ time = 0
            /\ pending = {}
            /\ nextHandle = 1
            /\ uncaught = FALSE
            /\ flowContainer = FALSE
            /\ multiFlowsApp = FALSE
            /\ flowSimulation = [ defined |-> FALSE, running |-> FALSE, bubbles |-> << >> ]
            /\ intervals = {}

----------------------------------------------------------------------------
(* Host services *)

\* requestAnimationFrame(cb): the handle is registered with the host
requestAnimationFrame(pend, h) == pend \cup { h }

\* cancelAnimationFrame(id): an unknown or already run handle is ignored
cancelAnimationFrame(pend, id) == pend \ { id }

----------------------------------------------------------------------------
(* Run control *)

\* animate() entered with this.isRunning = running, the pool ps, the generator
\* in state s and the host's queue pend; renderThrows: render() raises because
\* the drawing surface is unavailable.  The result is the state it leaves.
animate(running, ps, s, pend, renderThrows) ==
    IF ~running
    THEN [ time |-> time, particles |-> ps, rng |-> s, animationId |-> animationId,
           pending |-> pend, nextHandle |-> nextHandle, uncaught |-> FALSE ]
    ELSE Only({ IF renderThrows
                THEN [ time |-> time + 1, particles |-> upd.ps, rng |-> upd.rng,
                       animationId |-> animationId, pending |-> pend,
                       nextHandle |-> nextHandle, uncaught |-> TRUE ]
                ELSE [ time |-> time + 1, particles |-> upd.ps, rng |-> upd.rng,
                       animationId |-> nextHandle,
                       pending |-> requestAnimationFrame(pend, nextHandle),
                       nextHandle |-> nextHandle + 1, uncaught |-> FALSE ] :
             upd \in { updateParticles(ps, s, options, canvas, time + 1) } })

\* the state a call leaves is written to the variables animate touches
Leaves(call) ==
    \E r \in { call } :
    /\ time' = r.time
    /\ particles' = r.particles
    /\ rng' = r.rng
    /\ animationId' = r.animationId
    /\ pending' = r.pending
    /\ nextHandle' = r.nextHandle
    /\ uncaught' = r.uncaught

\* start() without its guard
startEntersAlways(running) == TRUE

\* start() guarded by the handle, which stop() never clears
startEntersUnlessHandle(running) == ~running /\ animationId = 0

\* start() enters animate() when the simulation is not running
startEnters(running) == ~running

\* stop() without cancelAnimationFrame
stopKeeps(pend, id) == pend

\* the queue stop() leaves: the handle in this.animationId is cancelled
stopCancels(pend, id) == IF id # 0 THEN cancelAnimationFrame(pend, id) ELSE pend

\* the host runs the animation frame callback with handle h
FrameStep ==
    /\ \E h \in pending, renderThrows \in BOOLEAN :
          Leaves(animate(isRunning, particles, rng, pending \ { h }, renderThrows))
    /\ UNCHANGED << options, container, canvas, isRunning >>
    /\ UNCHANGED appVars

\* start(), also the click on #startSim
StartStep ==
    /\ \E renderThrows \in BOOLEAN :
          IF startEnters(isRunning)
          THEN /\ isRunning' = TRUE
               /\ Leaves(animate(TRUE, particles, rng, pending, renderThrows))
          ELSE /\ uncaught' = FALSE
               /\ UNCHANGED << isRunning, time, particles, rng, animationId,
                               pending, nextHandle >>
    /\ UNCHANGED << options, container, canvas >>
    /\ UNCHANGED appVars

\* stop(), also the click on #stopSim
Stop ==
    /\ isRunning' = FALSE
    /\ pending' = stopCancels(pending, animationId)
    /\ uncaught' = FALSE
    /\ UNCHANGED << options, container, canvas, particles, animationId, time,
                    nextHandle, rng >>
    /\ UNCHANGED appVars

\* the click on #resetSim: stop(); createParticles(); start()
ResetStep ==
    /\ \E renderThrows \in BOOLEAN :
          \E pend \in { stopCancels(pending, animationId) },
             made \in { createParticles(rng, options, canvas) } :
              /\ isRunning' = TRUE
              /\ Leaves(animate(startEnters(FALSE), made.ps, made.rng, pend, renderThrows))
    /\ UNCHANGED << options, container, canvas >>
    /\ UNCHANGED appVars

----------------------------------------------------------------------------
(* Configuration *)

Quiet == /\ uncaught' = FALSE
         /\ UNCHANGED << container, canvas, particles, isRunning, animationId,
                         time, pending, nextHandle, rng >>
         /\ UNCHANGED appVars

setFlowSpeed(speed) == [options EXCEPT !.flowSpeed = speed]

\* setTurbulence writing the field of setFlowSpeed
setTurbulenceAsFlowSpeed(turbulence) == [options EXCEPT !.flowSpeed = turbulence]

setTurbulence(turbulence) == [options EXCEPT !.turbulence = turbulence]

setTemperature(temperature) == [options EXCEPT !.temperature = temperature]

SetFlowSpeed == \E v \in FlowSpeedVals : options' = setFlowSpeed(v) /\ Quiet

SetTurbulence == \E v \in TurbulenceVals : options' = setTurbulence(v) /\ Quiet

SetTemperature == \E v \in TemperatureVals : options' = setTemperature(v) /\ Quiet

\* a resize listener that only reads the host's size and leaves the surface
ResizeKeepingSurface ==
    \E d \in DimVals :
        /\ container' = d
        /\ uncaught' = FALSE
        /\ UNCHANGED << options, canvas, particles, isRunning, animationId, time,
                        pending, nextHandle, rng >>
        /\ UNCHANGED appVars

\* the window's resize event after the host gave the container the size d
Resize ==
    \E d \in DimVals :
        /\ container' = d
        /\ canvas' = [ width |-> d.offsetWidth, height |-> d.offsetHeight ]
        /\ uncaught' = FALSE
        /\ UNCHANGED << options, particles, isRunning, animationId, time,
                        pending, nextHandle, rng >>
        /\ UNCHANGED appVars

----------------------------------------------------------------------------

(* The specification: every call, up to MaxTime ticks *)

Frame == (isRunning => time < MaxTime) /\ FrameStep

Start == (startEnters(isRunning) => time < MaxTime) /\ StartStep

ResetSim == time < MaxTime /\ ResetStep

Next ==
    \/ Frame
    \/ Start
    \/ Stop
    \/ ResetSim
    \/ SetFlowSpeed
    \/ SetTurbulence
    \/ SetTemperature
    \/ Resize

Spec == Init /\ [][Next]_vars

----------------------------------------------------------------------------
(* The aged specification: the simulation is started and runs untouched for *)
(* Warmup ticks, after which every call happens, up to AgedTime ticks.      *)

WarmStart == time < Warmup /\ StartStep

WarmFrame == time < Warmup /\ FrameStep

AgedFrame == time >= Warmup /\ (isRunning => time < AgedTime) /\ FrameStep

AgedStart == time >= Warmup /\ (startEnters(isRunning) => time < AgedTime) /\ StartStep

AgedReset == time >= Warmup /\ time < AgedTime /\ ResetStep

AgedStop == time >= Warmup /\ Stop

AgedSetFlowSpeed == time >= Warmup /\ SetFlowSpeed

AgedSetTurbulence == time >= Warmup /\ SetTurbulence

AgedSetTemperature == time >= Warmup /\ SetTemperature

AgedResize == time >= Warmup /\ Resize

AgedNext ==
    \/ WarmStart
    \/ WarmFrame
    \/ AgedFrame
    \/ AgedStart
    \/ AgedStop
    \/ AgedReset
    \/ AgedSetFlowSpeed
    \/ AgedSetTurbulence
    \/ AgedSetTemperature
    \/ AgedResize

SpecAged == Init /\ [][AgedNext]_vars

----------------------------------------------------------------------------
(* Any sequence of start(), stop() and reset calls, while the host keeps     *)
(* delivering animation frames                                              *)

ControlNext ==
    \/ Frame
    \/ Start
    \/ Stop
    \/ ResetSim

LiveSpec == Init /\ [][ControlNext]_vars /\ WF_vars(Frame)

----------------------------------------------------------------------------
(* MultiFlowsApp: the bubble animation.  An operator takes and returns the  *)
(* pair of this.flowSimulation and the host's interval timers.              *)

\* setInterval(createBubble, 800): the host hands out the next handle; nothing
\* in the class calls clearInterval
setInterval(ivs) == ivs \cup { Cardinality(ivs) + 1 }

\* startFlowSimulation(): registers one more interval
startFlowSimulation(st) == [st EXCEPT !.intervals = setInterval(st.intervals)]

\* initFlowSimulation(): nothing without the element .flow-animation
initFlowSimulation(st) ==
    IF ~flowContainer THEN st
    ELSE startFlowSimulation(
             [st EXCEPT !.flowSimulation =
                 [ defined |-> TRUE, running |-> TRUE, bubbles |-> << >> ]])

\* stopAnimations()
stopAnimations(st) ==
    IF st.flowSimulation.defined
    THEN [st EXCEPT !.flowSimulation.running = FALSE]
    ELSE st

\* startAnimations(): the second method of this name in the class body, which
\* is the one the class keeps
startAnimations(st) ==
    IF st.flowSimulation.defined
    THEN startFlowSimulation([st EXCEPT !.flowSimulation.running = TRUE])
    ELSE st

\* the pair an operator left is written to the variables
AppLeaves(st) ==
    /\ flowSimulation' = st.flowSimulation
    /\ intervals' = st.intervals

AppNow == [ flowSimulation |-> flowSimulation, intervals |-> intervals ]

\* the variables of FlowSimulation, which MultiFlowsApp does not touch
simVars == << options, container, canvas, particles, isRunning, animationId,
              time, pending, nextHandle, rng, uncaught >>

\* DOMContentLoaded: new MultiFlowsApp(), that is init() and startAnimations()
NewMultiFlowsApp ==
    /\ ~multiFlowsApp
    /\ multiFlowsApp' = TRUE
    /\ AppLeaves(startAnimations(initFlowSimulation(AppNow)))
    /\ UNCHANGED << flowContainer, simVars >>

\* window.multiFlowsApp.stopAnimations()
StopAnimations ==
    /\ multiFlowsApp
    /\ AppLeaves(stopAnimations(AppNow))
    /\ UNCHANGED << flowContainer, multiFlowsApp, simVars >>

\* window.multiFlowsApp.startAnimations()
StartAnimations ==
    /\ multiFlowsApp
    /\ Cardinality(intervals) < MaxIntervals
    /\ AppLeaves(startAnimations(AppNow))
    /\ UNCHANGED << flowContainer, multiFlowsApp, simVars >>

\* the host runs createBubble for the interval h: the bubble is appended to
\* this.flowSimulation.bubbles; by, the interval that made it, is kept for
\* the record only
CreateBubble ==
    \E h \in intervals :
        /\ Len(flowSimulation.bubbles) < MaxBubbles
        /\ flowSimulation' =
              IF ~flowSimulation.running THEN flowSimulation
              ELSE [flowSimulation EXCEPT !.bubbles = Append(@, [ by |-> h ])]
        /\ UNCHANGED << flowContainer, multiFlowsApp, intervals, simVars >>

\* the host runs the timeout of the bubble at index i: it is taken from the
\* element and spliced from this.flowSimulation.bubbles
RemoveBubble ==
    \E i \in 1..Len(flowSimulation.bubbles) :
        /\ flowSimulation' =
              [flowSimulation EXCEPT !.bubbles =
                  SubSeq(@, 1, i - 1) \o SubSeq(@, i + 1, Len(@))]
        /\ UNCHANGED << flowContainer, multiFlowsApp, intervals, simVars >>

\* the page before DOMContentLoaded, with or without the element
\* .flow-animation; no FlowSimulation is instantiated on it
AppInit ==
    /\ flowContainer \in BOOLEAN
    /\ multiFlowsApp = FALSE
    /\ flowSimulation = [ defined |-> FALSE, running |-> FALSE, bubbles |-> << >> ]
    /\ intervals = {}
    /\ options = [ particleCount |-> 0, flowSpeed |-> 1000, turbulence |-> 100,
                   phaseTypes |-> << "gas", "liquid" >>, temperature |-> 293150,
                   pressure |-> 101325000 ]
    /\ container = InitDim
    /\ canvas = [ width |-> 0, height |-> 0 ]
    /\ particles = << >>
    /\ isRunning = FALSE
    /\ animationId = 0
    /\ time = 0
    /\ pending = {}
    /\ nextHandle = 1
    /\ rng = 0
    /\ uncaught = FALSE

AppNext ==
    \/ NewMultiFlowsApp
    \/ StopAnimations
    \/ StartAnimations
    \/ CreateBubble
    \/ RemoveBubble

AppSpec == AppInit /\ [][AppNext]_appVars

----------------------------------------------------------------------------
(* Run control: C1 - C6 *)

\* C1: at most one tick callback is pending with the host after every call;
\* a start() that finds the simulation running leaves the schedule it found,
\* and a start() that finds it stopped and whose tick completes leaves
\* exactly one pending callback.
C1_OneTickSchedule ==
    [][ /\ Cardinality(pending') <= 1
        /\ (isRunning /\ StartStep => pending' = pending /\ animationId' = animationId)
        /\ (~isRunning /\ ~uncaught' /\ StartStep => pending' = { animationId' }) ]_vars

\* running with its one callback pending after the callback was rescheduled
C1_Witness == isRunning /\ pending = { animationId } /\ nextHandle > 2

\* C2 (as claimed): when the reset control returns the pool holds
\* options.particleCount particles and each has life = 1.0.
C2_ResetLeavesFullLife ==
    [][ time' # time /\ ResetStep =>
          /\ Len(particles') = options.particleCount
          /\ \A i \in 1..Len(particles') : particles'[i].life = 1000000 ]_vars

\* C3 (as claimed): a tick that throws leaves the simulation stopped with no
\* tick scheduled.
C3_ThrowStops == uncaught => (~isRunning /\ pending = {})

\* C4: stop() leaves the simulation stopped with no pending callback; stop()
\* on a stopped simulation changes nothing; from a stopped simulation only
\* start() and the reset control change the tick counter or a particle.
C4_StopHalts ==
    [][ /\ (Stop => ~isRunning' /\ pending' = {})
        /\ (Stop /\ ~isRunning =>
              UNCHANGED << options, container, canvas, particles, isRunning,
                           animationId, time, pending, nextHandle, rng >>)
        /\ (~isRunning /\ (time' # time \/ particles' # particles) =>
              StartStep \/ ResetStep) ]_vars

\* stopped after ticks ran and a callback had been scheduled
C4_Witness == ~isRunning /\ animationId # 0 /\ pending = {} /\ time > 0

\* C5: a start() on a stopped simulation (so after any stop()) runs a tick
\* and, unless that tick throws, leaves it running with its callback pending;
\* and while frames are delivered a running simulation with a pending
\* callback eventually increases the tick counter or is stopped.
C5_Resumes ==
    /\ [][ ~isRunning /\ StartStep =>
             /\ isRunning'
             /\ time' = time + 1
             /\ (uncaught' \/ pending' = { animationId' }) ]_vars
    /\ \A t \in 0..(MaxTime - 1) :
          (isRunning /\ pending # {} /\ time = t) ~> (time > t \/ ~isRunning)

\* ticking again after a tick had thrown: a handle is pending although one
\* tick scheduled none, which takes a stop() and a start() (or the reset)
C5_Witness == isRunning /\ pending = { animationId } /\ nextHandle <= time

\* C6 (as claimed): once a frame callback has been scheduled the tick counter
\* changes only in a frame callback, by one, whatever is called in between.
C6_TickOnlyInFrame ==
    [][ animationId # 0 /\ time' # time => FrameStep /\ time' = time + 1 ]_vars

----------------------------------------------------------------------------
(* The pool: C7 - C10 *)

\* C7 (as claimed): after a tick every particle has 0 <= x < width and
\* 0 <= y < height.
C7_InsideHalfOpen ==
    [][ time' = time + 1 =>
          \A i \in 1..Len(particles') :
              /\ 0 <= particles'[i].x /\ particles'[i].x < canvas'.width
              /\ 0 <= particles'[i].y /\ particles'[i].y < canvas'.height ]_vars

RECURSIVE SumOver(_, _)
\* the sum of d over the keys in keys
SumOver(d, keys) ==
    IF keys = {} THEN 0
    ELSE LET k == CHOOSE k \in keys : TRUE IN d[k] + SumOver(d, keys \ { k })

\* C8: the counts of getPhaseDistribution() sum to getParticleCount(), and the
\* count of each phase is the number of pool particles in that phase (a phase
\* with no key has none).
C8_DistributionSums ==
    LET d == getPhaseDistribution
    IN  /\ DOMAIN d \subseteq Phases
        /\ SumOver(d, DOMAIN d) = getParticleCount
        /\ \A ph \in Phases :
              Cardinality({ i \in 1..Len(particles) : particles[i].phase = ph })
                = (IF ph \in DOMAIN d THEN d[ph] ELSE 0)

\* two particles share a phase after a tick
C8_Witness ==
    /\ time > 0
    /\ Len(particles) = 2
    /\ particles[1].phase = particles[2].phase

\* C9: no call changes the size of the pool, and the size is the
\* particleCount of the configuration, the one createParticles used.
C9_PoolSizeConstant ==
    [][ /\ Len(particles') = Len(particles)
        /\ Len(particles') = options'.particleCount ]_vars

\* a tick has just reset a particle whose life ran out
C9_Witness ==
    /\ time > Warmup
    /\ \E i \in 1..Len(particles) : particles[i].life = 1000000

\* C10: each setter stores its argument in its own field and changes nothing
\* else; a tick perturbs the velocity with the turbulence stored when it runs,
\* and the reset control seeds temperatures from the temperature stored when
\* it runs (its steps are those that leave a new particle after one tick).
C10_SettersTakeEffect ==
    [][ /\ (SetFlowSpeed =>
              /\ \E v \in FlowSpeedVals : options' = [options EXCEPT !.flowSpeed = v]
              /\ UNCHANGED << container, canvas, particles, isRunning, animationId,
                              time, pending, nextHandle, rng >>)
        /\ (SetTurbulence =>
              /\ \E v \in TurbulenceVals : options' = [options EXCEPT !.turbulence = v]
              /\ UNCHANGED << container, canvas, particles, isRunning, animationId,
                              time, pending, nextHandle, rng >>)
        /\ (SetTemperature =>
              /\ \E v \in TemperatureVals : options' = [options EXCEPT !.temperature = v]
              /\ UNCHANGED << container, canvas, particles, isRunning, animationId,
                              time, pending, nextHandle, rng >>)
        /\ (time' # time =>
              \/ particles'[1].vx =
                   ((particles[1].vx
                      + ((Random(rng, 0) - 500) * options.turbulence) \div 1000
                      + Sin(time + 1 + particles[1].y \div 1000) \div 10) * 98) \div 100
              \/ ~((isRunning /\ FrameStep) \/ (~isRunning /\ StartStep)))
        /\ ((time' # time
               /\ particles'[1].life = 1000000 - LifeStep(particles'[1])
               /\ ResetStep) =>
              particles'[1].temperature =
                 options.temperature + (Random(rng, 7) - 500) * 20
                    + (Random(rng, 9 * options.particleCount + 2) - 500) \div 2) ]_vars

\* every setter was used and a particle was created from the stored temperature
C10_Witness ==
    /\ options.flowSpeed = 8000
    /\ options.turbulence = 2000
    /\ options.temperature = 373150
    /\ \E i \in 1..Len(particles) : particles[i].temperature > 360000

----------------------------------------------------------------------------
(* Resize, phases, life, size and buoyancy: C11 - C16 *)

\* the reset control in this state: each particle createParticles builds,
\* paired with what the tick of the start() that follows leaves of it
ResetPairs ==
    UNION { { << made.ps[i], upd.ps[i] >> : i \in 1..Len(made.ps) } :
              << made, upd >> \in
                  { << m, updateParticles(m.ps, m.rng, options, canvas, time + 1) >> :
                       m \in { createParticles(rng, options, canvas) } } }

\* C11: a resize sets the drawing surface to the host's current dimensions and
\* changes no particle and nothing of the run state; and every tick, so the
\* first one after a resize, leaves each particle within the surface it finds,
\* edges included.
C11_ResizeKeepsPool ==
    [][ /\ (Resize =>
              /\ canvas' = [ width  |-> container'.offsetWidth,
                             height |-> container'.offsetHeight ]
              /\ UNCHANGED << options, particles, isRunning, animationId, time,
                              pending, nextHandle, rng >>)
        /\ (time' = time + 1 =>
              \A i \in 1..Len(particles') :
                  /\ 0 <= particles'[i].x /\ particles'[i].x <= canvas.width
                  /\ 0 <= particles'[i].y /\ particles'[i].y <= canvas.height) ]_vars

\* a resize left a particle beyond the right edge of the smaller surface, and
\* the next tick is due
C11_Witness ==
    /\ canvas.width < InitDim.offsetWidth
    /\ isRunning /\ pending # {} /\ time < MaxTime
    /\ \E i \in 1..Len(particles) : particles[i].x > canvas.width

\* the phase changes the claim allows: none, liquid to vapor, vapor to liquid
PhaseMove(from, to) ==
    \/ to = from
    \/ from = "liquid" /\ to = "vapor"
    \/ from = "vapor" /\ to = "liquid"

\* C12: createParticles gives every particle one of the configured phaseTypes;
\* a step that is no tick leaves every phase alone, and a tick changes a phase
\* only from liquid to vapor or from vapor to liquid, in the pool it finds and
\* in the pool the reset control creates for it: gas stays gas.
C12_GasNeverChanges ==
    /\ [](\A pq \in ResetPairs :
              /\ \E k \in 1..Len(options.phaseTypes) :
                    pq[1].phase = options.phaseTypes[k]
              /\ PhaseMove(pq[1].phase, pq[2].phase))
    /\ [](time = 0 =>
              \A i \in 1..Len(particles) :
                  \E k \in 1..Len(options.phaseTypes) :
                      particles[i].phase = options.phaseTypes[k])
    /\ [][ /\ (time' = time =>
                  \A i \in 1..Len(particles) :
                      particles'[i].phase = particles[i].phase)
           /\ (time' # time =>
                  \/ \A i \in 1..Len(particles) :
                        PhaseMove(particles[i].phase, particles'[i].phase)
                  \/ ResetStep) ]_vars

\* a gas particle has gone through a tick well above the critical temperature
C12_Witness ==
    /\ time > 0
    /\ \E i \in 1..Len(particles) :
          /\ particles[i].phase = "gas"
          /\ particles[i].temperature > criticalTemp + 1000

\* the phase the claim gives a particle after a tick it began as p
PhaseAfter(p) ==
    IF p.phase = "liquid" /\ p.temperature > criticalTemp THEN "vapor"
    ELSE IF p.phase = "vapor" /\ p.temperature < criticalTemp THEN "liquid"
    ELSE p.phase

\* C13: a particle that begins a tick liquid above 373.15 ends it vapor, one
\* that begins it vapor below 373.15 ends it liquid, and any other particle,
\* so one at exactly 373.15 or one the drift of this tick carries across,
\* keeps its phase: the temperature the tick began with decides.  This holds
\* for the pool a tick finds and for the pool the reset control creates.
C13_TransitionAtCritical ==
    /\ [](\A pq \in ResetPairs : pq[2].phase = PhaseAfter(pq[1]))
    /\ [][ time' # time =>
             \/ \A i \in 1..Len(particles) :
                   particles'[i].phase = PhaseAfter(particles[i])
             \/ ResetStep ]_vars

\* a particle began a tick liquid at exactly 373.15 and the drift carried it
\* above: it is still liquid
C13_Witness ==
    /\ time > 0
    /\ \E i \in 1..Len(particles) :
          /\ particles[i].phase = "liquid"
          /\ particles[i].temperature > criticalTemp

\* the states the generator can be in
Seeds == 0..(RngModulus - 1)

\* what the claim says a tick makes of the life of p, q being what it leaves:
\* life goes down by 1 / maxLife, and when that is not above zero the particle
\* has life 1.0, a freshly drawn position and temperature, and the maxLife,
\* phase, velocity and size the tick gave it without the reset
LifeMove(p, q) ==
    /\ q.maxLife = p.maxLife
    /\ IF p.life - LifeStep(p) > 0
       THEN q.life = p.life - LifeStep(p)
       ELSE /\ q.life = 1000000
            /\ \E s \in Seeds : q.x = (RandomOf(s) * canvas.width) \div 1000
            /\ \E s \in Seeds : q.y = (RandomOf(s) * canvas.height) \div 1000
            /\ \E s \in Seeds :
                  q.temperature = options.temperature + (RandomOf(s) - 500) * 20
            /\ q.phase = PhaseAfter(p)
            /\ q.size = IF PhaseAfter(p) = p.phase THEN p.size
                        ELSE setPhaseProperties([p EXCEPT !.phase = PhaseAfter(p)]).size
            /\ \E s \in Seeds :
                  \E f \in { applyFlowForces(p, s, options, time') } :
                      q.vx = f.vx /\ q.vy = f.vy

\* C14: between ticks every life is in (0, 1]; a tick lowers each life by
\* 1 / maxLife, and a particle whose life would not stay above zero is reset
\* in that tick: life 1.0, position and temperature drawn anew, maxLife,
\* phase, velocity and size as the tick left them.  The particles the reset
\* control leaves are those of its new pool, created with life 1.0, after the
\* same tick.
C14_LifeInRange ==
    [][ /\ \A i \in 1..Len(particles) :
              0 < particles[i].life /\ particles[i].life <= 1000000
        /\ \A i \in 1..Len(particles') :
              0 < particles'[i].life /\ particles'[i].life <= 1000000
        /\ (time' = time =>
              \A i \in 1..Len(particles) : particles'[i].life = particles[i].life)
        /\ (time' # time =>
              \/ \A i \in 1..Len(particles) : LifeMove(particles[i], particles'[i])
              \/ \E pairs \in { ResetPairs } :
                    \A i \in 1..Len(particles') :
                        \E pq \in pairs :
                            /\ pq[2] = particles'[i]
                            /\ pq[1].life = 1000000
                            /\ LifeMove(pq[1], pq[2])) ]_vars

\* the particle with maxLife 50 has been reset by its fiftieth tick
C14_Witness ==
    /\ time > Warmup
    /\ \E i \in 1..Len(particles) :
          /\ particles[i].maxLife = 50000
          /\ particles[i].life = 1000000

\* the size the claim gives a particle after a tick it began as p and ends in
\* the phase to: the multiplier of the new phase on the size p has
SizeAfter(p, to) ==
    IF to = p.phase THEN p.size
    ELSE IF to = "vapor" THEN (p.size * 6) \div 10
    ELSE IF to = "liquid" THEN (p.size * 12) \div 10
    ELSE (p.size * 8) \div 10

\* checkPhaseChange on p with its temperature forced across the threshold,
\* then forced back: a round trip through the other phase
RoundTrip(p) ==
    LET hot  == 400000
        cold == 300000
        out  == checkPhaseChange(
                    [p EXCEPT !.temperature = IF p.phase = "liquid" THEN hot ELSE cold], 0)
    IN  checkPhaseChange(
            [out EXCEPT !.temperature = IF out.phase = "liquid" THEN hot ELSE cold], 0)

RECURSIVE Compounded(_, _)
\* size * 0.72^k, truncated after every factor
Compounded(size, k) ==
    IF k = 0 THEN size ELSE (Compounded(size, k - 1) * 72) \div 100

RECURSIVE TripsFrom(_, _, _)
\* round trips k, k + 1, ... MaxTrips of the particle p, which the trips before
\* have made q: each leaves the phase of p and the size of p times 0.72^k (the
\* truncations of the two factors of a trip lose less than 8 millionths),
\* which is smaller than the size before the trip
TripsFrom(p, q, k) ==
    \/ k > MaxTrips
    \/ \E r \in { RoundTrip(q) } :
          /\ r.phase = p.phase
          /\ r.size <= Compounded(p.size, k)
          /\ r.size > Compounded(p.size, k) - 8
          /\ r.size < q.size
          /\ TripsFrom(p, r, k + 1)

\* round trips compound on every liquid or vapor particle of the pool ps
TripsCompound(ps) ==
    \A i \in 1..Len(ps) :
        ps[i].phase \in { "liquid", "vapor" } => TripsFrom(ps[i], ps[i], 1)

\* C15: a tick that changes a particle's phase multiplies the size the
\* particle has then by the multiplier of the new phase (0.6 vapor, 1.2
\* liquid), and nothing else changes a size; so k round trips forced on a
\* particle of a pool, the one a tick finds or the one it leaves, leave its
\* size times 0.72^k, never the size it had.
C15_MultipliersCompound ==
    [][ /\ (time' = time =>
              \A i \in 1..Len(particles) : particles'[i].size = particles[i].size)
        /\ (time' # time => TripsCompound(particles) /\ TripsCompound(particles'))
        /\ (time' # time =>
              \/ \A i \in 1..Len(particles) :
                    particles'[i].size = SizeAfter(particles[i], particles'[i].phase)
              \/ \E pairs \in { ResetPairs } :
                    \A i \in 1..Len(particles') :
                        \E pq \in pairs :
                            /\ pq[2] = particles'[i]
                            /\ pq[2].size = SizeAfter(pq[1], pq[2].phase)) ]_vars

\* a particle created liquid, so with 1.2 times the size drawn for it, is
\* vapor with 0.6 times that size
C15_Witness ==
    /\ time > 0
    /\ \E i \in 1..Len(particles) :
          /\ particles[i].phase = "vapor"
          /\ \E s \in Seeds :
                particles[i].size = (((((RandomOf(s) * 5000 + 2000000) * 12) \div 10) * 6) \div 10)
          /\ \A s \in Seeds :
                particles[i].size # ((RandomOf(s) * 5000 + 2000000) * 6) \div 10

\* the buoyancy column of the phase table
BuoyancyOf(phase) ==
    CASE phase = "gas" -> -20
      [] phase = "liquid" -> 10
      [] phase = "vapor" -> -50

\* C16: in every state each particle's buoyancy is the constant of the phase
\* table for the phase it is in (gas -0.02, liquid 0.01, vapor -0.05), so it
\* follows every phase change and survives the reset of the particle.
C16_BuoyancyOfPhase ==
    \A i \in 1..Len(particles) :
        /\ particles[i].phase \in Phases
        /\ particles[i].buoyancy = BuoyancyOf(particles[i].phase)

\* a particle created vapor (0.6 times the size drawn for it) turned liquid
\* (1.2 times that) and has just been reset at the end of its life
C16_Witness ==
    /\ time > Warmup
    /\ \E i \in 1..Len(particles) :
          /\ particles[i].life = 1000000
          /\ particles[i].phase = "liquid"
          /\ \E s \in Seeds :
                particles[i].size = (((((RandomOf(s) * 5000 + 2000000) * 6) \div 10) * 12) \div 10)
          /\ \A s \in Seeds :
                particles[i].size # ((RandomOf(s) * 5000 + 2000000) * 12) \div 10

----------------------------------------------------------------------------
(* MultiFlowsApp: C17 *)

\* C17 (as claimed): at most one interval timer that creates bubbles is
\* active, after construction and after any stopAnimations() and
\* startAnimations() calls; and while the animation is stopped no bubble is
\* created.
C17_OneBubbleInterval ==
    /\ [](Cardinality(intervals) <= 1)
    /\ [][ ~flowSimulation.running =>
             Len(flowSimulation'.bubbles) <= Len(flowSimulation.bubbles) ]_appVars

====
